---- MODULE Spec2Model ----
(***************************************************************************)
(* Model of backend/main.py: the /chat/text and /tts handlers and the      *)
(* token budgeting helper truncate_to_max_tokens.                          *)
(*                                                                         *)
(* A text is a sequence of symbols.  Three symbols stand for ordinary      *)
(* characters (a letter, a blank, a full stop); the fourth stands for the  *)
(* thirteen characters "<|endoftext|>", which tiktoken's encode() refuses  *)
(* with a ValueError.  The tokenizer is a small vocabulary of multi-symbol *)
(* tokens with longest-match encoding: tokens are integer ids, decode      *)
(* looks the ids up and concatenates.                                      *)
(***************************************************************************)
EXTENDS Integers, Sequences, FiniteSets

VARIABLES h, config, last_tts, trunc

vars == <<h, config, last_tts, trunc>>

----------------------------------------------------------------------------
(* Bounds of the model *)

NReq == 2

MaxTail == 3

MaxLen == 3

MaxLimit == 3

MaxAudio == 2

----------------------------------------------------------------------------
(* Program constants *)

MAX_OUTPUT_TOKENS == 150

GEMINI_API_KEY == "key"

Special == "<|endoftext|>"

Chars == {"a", " ", "."}

Ellipsis == <<".", ".", ".">>

\* encoding: the token table.  A token id is an index of Vocab.
Vocab ==
  << <<"a">>, <<"a", "a">>, <<" ", "a">>, <<" ">>, <<" ", " ">>,
     <<".">>, <<".", ".">>, <<".", ".", ".">>, <<".", ".", ".", ".">> >>

----------------------------------------------------------------------------
(* Python string operations *)

\* len(s): the special marker is thirteen characters long
PyLen(s) == Len(s) + 12 * Cardinality({i \in 1..Len(s) : s[i] = Special})

\* s.rstrip(): drop trailing whitespace, that is keep up to the last character
\* that is not whitespace
rstrip(s) ==
  LET solid == {i \in 1..Len(s) : s[i] # " "}
  IN  IF solid = {} THEN <<>>
      ELSE SubSeq(s, 1, CHOOSE i \in solid : \A j \in solid : j <= i)

----------------------------------------------------------------------------
(* The tokenizer *)

\* encoding.encode raises on a text holding a special-token marker
EncodeRaises(text) == \E i \in 1..Len(text) : text[i] = Special

Matches(text, i, tok) ==
  /\ i + Len(tok) - 1 <= Len(text)
  /\ SubSeq(text, i, i + Len(tok) - 1) = tok

\* the id of the longest token that text continues with at position i
LongestMatch(text, i) ==
  LET found == {id \in DOMAIN Vocab : Matches(text, i, Vocab[id])}
  IN  CHOOSE id \in found : \A j \in found : Len(Vocab[j]) <= Len(Vocab[id])

RECURSIVE Decode(_)
\* encoding.decode(tokens): the tokens' texts, concatenated
Decode(tokens) ==
  IF tokens = <<>> THEN <<>>
  ELSE IF Len(tokens) = 1 THEN Vocab[tokens[1]]
  ELSE LET half == Len(tokens) \div 2
       IN  Decode(SubSeq(tokens, 1, half))
             \o Decode(SubSeq(tokens, half + 1, Len(tokens)))

RECURSIVE EncodeRun(_, _, _)
\* at most k tokens of text, from position i on, each the longest match
EncodeRun(text, i, k) ==
  IF k = 0 \/ i > Len(text) THEN <<>>
  ELSE LET id == LongestMatch(text, i)
       IN  <<id>> \o EncodeRun(text, i + Len(Vocab[id]), k - 1)

RECURSIVE EncodeFrom(_, _)
\* the tokens of text from position i on, left to right (taken sixteen at a
\* time, which keeps the evaluation's nesting shallow)
EncodeFrom(text, i) ==
  IF i > Len(text) THEN <<>>
  ELSE LET run == EncodeRun(text, i, 16)
       IN  run \o EncodeFrom(text, i + Len(Decode(run)))

\* encoding.encode(text), for a text it does not refuse
Encode(text) == EncodeFrom(text, 1)

\* count_tokens(text): the only place with the 4-characters-per-token fallback
count_tokens(text) ==
  IF EncodeRaises(text) THEN PyLen(text) \div 4 ELSE Len(Encode(text))

\* a variant with the comparison off by one (< for <=)
truncate_strict(text, max_tokens) ==
  LET tokens == Encode(text)
  IN  IF Len(tokens) < max_tokens
      THEN <<text, Len(tokens)>>
      ELSE LET truncated_text == Decode(SubSeq(tokens, 1, max_tokens))
           IN  << IF truncated_text # <<>>
                  THEN rstrip(truncated_text) \o Ellipsis
                  ELSE truncated_text,
                  max_tokens >>

\* truncate_to_max_tokens(text, max_tokens), for a text encode() accepts:
\* the pair <<truncated_text, token count>>
truncate_to_max_tokens(text, max_tokens) ==
  LET tokens == Encode(text)
  IN  IF Len(tokens) <= max_tokens
      THEN <<text, Len(tokens)>>
      ELSE LET truncated_tokens == SubSeq(tokens, 1, max_tokens)
               truncated_text == Decode(truncated_tokens)
           IN  << IF truncated_text # <<>>
                  THEN rstrip(truncated_text) \o Ellipsis
                  ELSE truncated_text,
                  max_tokens >>

\* line 118: the flag compares character lengths
was_truncated(original, truncated_response) ==
  PyLen(original) # PyLen(truncated_response)

----------------------------------------------------------------------------
(* Inputs *)

Reqs == 1..NReq

Messages == {"hello", "hi"}

\* n words, one token each: " a a a ..."
Pad(n) == [i \in 1..(2 * n) |-> IF i % 2 = 1 THEN " " ELSE "a"]

Tails == UNION {[1..n -> Chars] : n \in 0..MaxTail}

NoText == [tag |-> "none", text |-> <<>>, err |-> ""]

TextResult(t) == [tag |-> "text", text |-> t, err |-> ""]

RaiseResult(e) == [tag |-> "raise", text |-> <<>>, err |-> e]

\* str(e) of the errors the provider clients raise; a timeout of the HTTP
\* client carries no message
ProviderErrors == {"503 UNAVAILABLE", ""}

\* what generate_content can hand back: a reply text short or just around the
\* budget, a reply holding the special marker, a reply without text, an error
ReplyTexts ==
  {Pad(p) \o tail : p \in {0, MAX_OUTPUT_TOKENS}, tail \in Tails}
    \cup {<<Special>>, <<"a", Special>>}

LlmResults ==
  {TextResult(t) : t \in ReplyTexts} \cup {NoText}
    \cup {RaiseResult(e) : e \in ProviderErrors}

Bytes == {0, 255}

AudioPayloads == UNION {[1..n -> Bytes] : n \in 1..MaxAudio}

TtsResults ==
  {TextResult(p) : p \in AudioPayloads} \cup {RaiseResult(e) : e \in ProviderErrors}

\* the small input sets of the concurrent specification: every request sends
\* the same message
ConcMessages == {"hello"}

ConcLlmResults ==
  {TextResult(<<"a">>), TextResult(Pad(MAX_OUTPUT_TOKENS) \o <<"a">>),
   RaiseResult("503 UNAVAILABLE")}

ConcTtsResults ==
  {TextResult(<<0>>), TextResult(<<255>>), RaiseResult("503 UNAVAILABLE")}

----------------------------------------------------------------------------
(* State *)

NoHttp == [status |-> 0]

Idle ==
  [pc |-> "idle", endpoint |-> "none", message |-> "", calls |-> 0,
   response |-> NoText,
   truncated_response |-> <<>>, tokens_used |-> 0, was_truncated |-> FALSE,
   audio_buffer |-> [data |-> <<>>, pos |-> 0],
   e |-> "", http |-> NoHttp]

InitConfig ==
  [GEMINI_API_KEY |-> GEMINI_API_KEY, MAX_OUTPUT_TOKENS |-> MAX_OUTPUT_TOKENS,
   encoding |-> Vocab]

NoResult == [raised |-> FALSE, text |-> <<>>, count |-> 0, flag |-> FALSE]

TruncIdle == [pc |-> "off", text |-> <<>>, max_tokens |-> 0,
              first |-> NoResult, second |-> NoResult]

Init ==
  /\ h = [r \in Reqs |-> Idle]
  /\ config = InitConfig
  /\ last_tts = "none"
  /\ trunc = TruncIdle

Set(r, rec) == h' = [h EXCEPT ![r] = rec]

----------------------------------------------------------------------------
(* POST /chat/text *)

\* lines 104-112: the request arrives and the one outbound call is issued
chat_text_call(r, msg) ==
  /\ h[r].pc = "idle"
  /\ Set(r, [h[r] EXCEPT !.pc = "chat_wait", !.endpoint = "chat",
                         !.message = msg, !.calls = @ + 1])
  /\ UNCHANGED <<config, last_tts, trunc>>

\* a variant that calls the provider a second time after a failure
chat_text_provider_retry(r, res) ==
  /\ h[r].pc = "chat_wait"
  /\ Set(r, IF res.tag = "raise" /\ h[r].calls < 2
            THEN [h[r] EXCEPT !.calls = @ + 1]
            ELSE IF res.tag = "raise"
            THEN [h[r] EXCEPT !.pc = "chat_except", !.response = res, !.e = res.err]
            ELSE [h[r] EXCEPT !.pc = "chat_budget", !.response = res])
  /\ UNCHANGED <<config, last_tts, trunc>>

\* generate_content returns or raises
chat_text_provider(r, res) ==
  /\ h[r].pc = "chat_wait"
  /\ Set(r, IF res.tag = "raise"
            THEN [h[r] EXCEPT !.pc = "chat_except", !.response = res, !.e = res.err]
            ELSE [h[r] EXCEPT !.pc = "chat_budget", !.response = res])
  /\ UNCHANGED <<config, last_tts, trunc>>

\* lines 114-118: truncate and compute the flag; encode() raising leaves the
\* try block
chat_text_budget(r) ==
  /\ h[r].pc = "chat_budget"
  /\ LET ai_response == h[r].response
     IN  IF ai_response.tag = "none"
         THEN Set(r, [h[r] EXCEPT !.pc = "chat_except",
                                  !.e = "expected string or buffer"])
         ELSE IF EncodeRaises(ai_response.text)
         THEN Set(r, [h[r] EXCEPT !.pc = "chat_except",
                                  !.e = "disallowed special token"])
         ELSE LET res == truncate_to_max_tokens(ai_response.text,
                                                config.MAX_OUTPUT_TOKENS)
              IN  Set(r, [h[r] EXCEPT
                    !.pc = "chat_return",
                    !.truncated_response = res[1],
                    !.tokens_used = res[2],
                    !.was_truncated = was_truncated(ai_response.text, res[1])])
  /\ UNCHANGED <<config, last_tts, trunc>>

\* a variant that reports the reply's own token count
chat_text_return_recount(r) ==
  /\ h[r].pc = "chat_return"
  /\ Set(r, [h[r] EXCEPT
       !.pc = "done",
       !.http = [status |-> 200,
                 response |-> h[r].truncated_response,
                 tokens_used |-> count_tokens(h[r].response.text),
                 max_tokens |-> config.MAX_OUTPUT_TOKENS,
                 truncated |-> h[r].was_truncated]])
  /\ UNCHANGED <<config, last_tts, trunc>>

\* lines 120-127
chat_text_return(r) ==
  /\ h[r].pc = "chat_return"
  /\ Set(r, [h[r] EXCEPT
       !.pc = "done",
       !.http = [status |-> 200,
                 response |-> h[r].truncated_response,
                 tokens_used |-> h[r].tokens_used,
                 max_tokens |-> config.MAX_OUTPUT_TOKENS,
                 truncated |-> h[r].was_truncated]])
  /\ UNCHANGED <<config, last_tts, trunc>>

\* lines 128-130
chat_text_except(r) ==
  /\ h[r].pc = "chat_except"
  /\ Set(r, [h[r] EXCEPT !.pc = "done",
                         !.http = [status |-> 500, detail |-> h[r].e]])
  /\ UNCHANGED <<config, last_tts, trunc>>

----------------------------------------------------------------------------
(* POST /tts *)

\* lines 133-139: the request arrives, gTTS object and empty buffer are made
text_to_speech_start(r, msg) ==
  /\ h[r].pc = "idle"
  /\ Set(r, [h[r] EXCEPT !.pc = "tts_write", !.endpoint = "tts",
                         !.message = msg,
                         !.audio_buffer = [data |-> <<>>, pos |-> 0]])
  /\ UNCHANGED <<config, last_tts, trunc>>

\* a variant with one module-level buffer that every request writes to
text_to_speech_write_shared(r, res) ==
  /\ h[r].pc = "tts_write"
  /\ h' = [q \in Reqs |->
            IF q = r
            THEN (IF res.tag = "raise"
                  THEN [h[r] EXCEPT !.pc = "tts_except", !.calls = @ + 1,
                                    !.response = res, !.e = res.err]
                  ELSE [h[r] EXCEPT !.pc = "tts_seek", !.calls = @ + 1,
                                    !.response = res,
                                    !.audio_buffer = [data |-> res.text,
                                                      pos |-> Len(res.text)]])
            ELSE IF res.tag = "raise" THEN h[q]
            ELSE [h[q] EXCEPT !.audio_buffer = [data |-> res.text,
                                                pos |-> Len(res.text)]]]
  /\ UNCHANGED <<config, last_tts, trunc>>

\* line 140: write_to_fp calls the provider and writes the payload, or raises
text_to_speech_write(r, res) ==
  /\ h[r].pc = "tts_write"
  /\ Set(r, IF res.tag = "raise"
            THEN [h[r] EXCEPT !.pc = "tts_except", !.calls = @ + 1,
                              !.response = res, !.e = res.err]
            ELSE [h[r] EXCEPT !.pc = "tts_seek", !.calls = @ + 1,
                              !.response = res,
                              !.audio_buffer = [data |-> res.text,
                                                pos |-> Len(res.text)]])
  /\ UNCHANGED <<config, last_tts, trunc>>

\* a variant that forgets to rewind the buffer
text_to_speech_seek_missing(r) ==
  /\ h[r].pc = "tts_seek"
  /\ Set(r, [h[r] EXCEPT !.pc = "tts_return"])
  /\ UNCHANGED <<config, last_tts, trunc>>

\* line 141
text_to_speech_seek(r) ==
  /\ h[r].pc = "tts_seek"
  /\ Set(r, [h[r] EXCEPT !.pc = "tts_return", !.audio_buffer.pos = 0])
  /\ UNCHANGED <<config, last_tts, trunc>>

\* lines 143-144: the response streams the buffer from its position on
text_to_speech_return(r) ==
  /\ h[r].pc = "tts_return"
  /\ LET buf == h[r].audio_buffer
     IN  Set(r, [h[r] EXCEPT
           !.pc = "done",
           !.http = [status |-> 200, media_type |-> "audio/mpeg",
                     body |-> SubSeq(buf.data, buf.pos + 1, Len(buf.data))]])
  /\ UNCHANGED <<config, last_tts, trunc>>

\* lines 145-147
text_to_speech_except(r) ==
  /\ h[r].pc = "tts_except"
  /\ Set(r, [h[r] EXCEPT !.pc = "done",
                         !.http = [status |-> 500, detail |-> h[r].e]])
  /\ UNCHANGED <<config, last_tts, trunc>>

\* the response is sent; everything request-scoped is discarded
Finish(r) ==
  /\ h[r].pc = "done"
  /\ h' = [h EXCEPT ![r] = Idle]
  /\ last_tts' = IF h[r].endpoint = "tts" THEN h[r].message ELSE last_tts
  /\ UNCHANGED <<config, trunc>>

----------------------------------------------------------------------------
(* Spec: one worker serving one request after the other *)

Worker == 1

Next ==
  \/ \E msg \in Messages : chat_text_call(Worker, msg)
  \/ \E res \in LlmResults : chat_text_provider(Worker, res)
  \/ chat_text_budget(Worker)
  \/ chat_text_return(Worker)
  \/ chat_text_except(Worker)
  \/ \E msg \in Messages : text_to_speech_start(Worker, msg)
  \/ \E res \in TtsResults : text_to_speech_write(Worker, res)
  \/ text_to_speech_seek(Worker)
  \/ text_to_speech_return(Worker)
  \/ text_to_speech_except(Worker)
  \/ Finish(Worker)

Spec == Init /\ [][Next]_vars

----------------------------------------------------------------------------
(* SpecTrunc: truncate_to_max_tokens on its own, applied to a text and a    *)
(* limit, then once more to its own result with the same limit              *)

TruncTexts == UNION {[1..n -> Chars \cup {Special}] : n \in 0..MaxLen}

\* one call, with the flag computed from its result as the handler does
Budget(text, max_tokens) ==
  IF EncodeRaises(text)
  THEN [raised |-> TRUE, text |-> <<>>, count |-> 0, flag |-> FALSE]
  ELSE LET res == truncate_to_max_tokens(text, max_tokens)
       IN  [raised |-> FALSE, text |-> res[1], count |-> res[2],
            flag |-> was_truncated(text, res[1])]

InitTrunc ==
  /\ h = [r \in Reqs |-> Idle]
  /\ config = InitConfig
  /\ last_tts = "none"
  /\ trunc \in {[pc |-> "start", text |-> t, max_tokens |-> m,
                 first |-> NoResult, second |-> NoResult] :
                  t \in TruncTexts, m \in 0..MaxLimit}

TruncateOnce ==
  /\ trunc.pc = "start"
  /\ trunc' = [trunc EXCEPT !.pc = "once",
                            !.first = Budget(trunc.text, trunc.max_tokens)]
  /\ UNCHANGED <<h, config, last_tts>>

TruncateAgain ==
  /\ trunc.pc = "once"
  /\ ~trunc.first.raised
  /\ trunc' = [trunc EXCEPT !.pc = "twice",
                            !.second = Budget(trunc.first.text, trunc.max_tokens)]
  /\ UNCHANGED <<h, config, last_tts>>

NextTrunc == TruncateOnce \/ TruncateAgain

SpecTrunc == InitTrunc /\ [][NextTrunc]_vars

----------------------------------------------------------------------------
(* SpecConc: NReq requests whose steps interleave freely *)

NextConc ==
  \E r \in Reqs :
    \/ \E msg \in ConcMessages : chat_text_call(r, msg)
    \/ \E res \in ConcLlmResults : chat_text_provider(r, res)
    \/ chat_text_budget(r)
    \/ chat_text_return(r)
    \/ chat_text_except(r)
    \/ \E msg \in ConcMessages : text_to_speech_start(r, msg)
    \/ \E res \in ConcTtsResults : text_to_speech_write(r, res)
    \/ text_to_speech_seek(r)
    \/ text_to_speech_return(r)
    \/ text_to_speech_except(r)

SpecConc == Init /\ [][NextConc]_vars

----------------------------------------------------------------------------
(* Properties *)

Done(r) == h[r].pc = "done"

ChatOk(r) == h[r].endpoint = "chat" /\ Done(r) /\ h[r].http.status = 200

TokenLen(text) == Len(Encode(text))

Applied == trunc.pc \in {"once", "twice"}

\* C1: in every successful chat reply, truncated is true exactly when the
\* original reply has more than MAX_OUTPUT_TOKENS tokens.
C1_FlagIffOverBudget ==
  \A r \in Reqs :
    ChatOk(r) =>
      (h[r].http.truncated <=> TokenLen(h[r].response.text) > MAX_OUTPUT_TOKENS)

\* C2: a text of at most max_tokens tokens comes back unchanged with its exact
\* token count and the flag false; the empty text gives ("", 0).
C2_WithinBudgetUnchanged ==
  (Applied /\ ~EncodeRaises(trunc.text)
     /\ TokenLen(trunc.text) <= trunc.max_tokens)
  => /\ ~trunc.first.raised
     /\ trunc.first.text = trunc.text
     /\ trunc.first.count = TokenLen(trunc.text)
     /\ trunc.first.flag = FALSE
     /\ (trunc.text = <<>> => trunc.first.text = <<>> /\ trunc.first.count = 0)

\* C2 witness: a text of exactly max_tokens tokens, one of them of two
\* characters, has been passed through
C2_Witness ==
  /\ trunc.pc = "once"
  /\ trunc.text = <<" ", "a", ".">>
  /\ trunc.max_tokens = 2
  /\ trunc.first.text = trunc.text
  /\ trunc.first.count = 2

\* C3: a text of more than max_tokens tokens comes back as the decoded first
\* max_tokens tokens, right-stripped, with "..." appended, and the count
\* max_tokens; this for every max_tokens >= 0.
C3_PrefixPlusMarker ==
  (Applied /\ ~EncodeRaises(trunc.text)
     /\ TokenLen(trunc.text) > trunc.max_tokens)
  => /\ trunc.first.text =
          rstrip(Decode(SubSeq(Encode(trunc.text), 1, trunc.max_tokens)))
            \o Ellipsis
     /\ trunc.first.count = trunc.max_tokens

\* C4: when the provider returned a text and encoding it fails, the handler
\* still answers 200 with the estimate of len(text) // 4 tokens.
C4_EncodeFailureDegrades ==
  \A r \in Reqs :
    (h[r].endpoint = "chat" /\ Done(r) /\ h[r].response.tag = "text"
       /\ EncodeRaises(h[r].response.text))
    => /\ h[r].http.status = 200
       /\ h[r].http.tokens_used = PyLen(h[r].response.text) \div 4

\* C5: in every successful chat reply 0 <= tokens_used <= max_tokens and
\* max_tokens is MAX_OUTPUT_TOKENS.
C5_TokensWithinBudget ==
  \A r \in Reqs :
    ChatOk(r) =>
      /\ h[r].http.tokens_used \in Nat
      /\ h[r].http.tokens_used <= h[r].http.max_tokens
      /\ h[r].http.max_tokens = MAX_OUTPUT_TOKENS

\* C5 witness: a reply over the budget was answered with tokens_used at the
\* budget
C5_Witness ==
  \E r \in Reqs :
    /\ ChatOk(r)
    /\ TokenLen(h[r].response.text) > MAX_OUTPUT_TOKENS
    /\ h[r].http.tokens_used = MAX_OUTPUT_TOKENS

ProviderFailed(r) ==
  h[r].endpoint = "chat" /\ Done(r) /\ h[r].response.tag \in {"raise", "none"}

\* C6 as stated: a failed provider call ends in HTTP 500 with a non-empty
\* detail, no reply, and exactly one outbound call.
C6_NonEmptyDetail ==
  \A r \in Reqs :
    ProviderFailed(r) =>
      /\ h[r].http.status = 500
      /\ h[r].http.detail # ""
      /\ h[r].calls = 1

\* C6 amended: a failed provider call ends in HTTP 500 whose detail is the
\* error's own text, str(e), and nothing else; exactly one outbound call was
\* made.
C6_DetailIsErrorText ==
  \A r \in Reqs :
    ProviderFailed(r) =>
      /\ h[r].http =
           [status |-> 500,
            detail |-> IF h[r].response.tag = "raise" THEN h[r].response.err
                       ELSE "expected string or buffer"]
      /\ h[r].calls = 1

\* C6 witness: a provider error with a message was answered with 500
C6_Witness ==
  \E r \in Reqs :
    /\ ProviderFailed(r)
    /\ h[r].response.tag = "raise"
    /\ h[r].response.err = "503 UNAVAILABLE"
    /\ h[r].http.status = 500

C8_SpeechRelay ==
  \A r \in Reqs :
    h[r].endpoint = "tts" =>
      /\ h[r].calls <= 1
      /\ Done(r) =>
           /\ h[r].calls = 1
           /\ h[r].http =
                IF h[r].response.tag = "text"
                THEN [status |-> 200, media_type |-> "audio/mpeg",
                      body |-> h[r].response.text]
                ELSE [status |-> 500, detail |-> h[r].response.err]

\* C8 witness: a request with the same message as the one before it got the
\* payload of its own provider call
C8_Witness ==
  \E r \in Reqs :
    /\ h[r].endpoint = "tts" /\ Done(r)
    /\ h[r].message = last_tts
    /\ h[r].calls = 1
    /\ h[r].http.status = 200
    /\ h[r].http.body = <<0, 255>>

\* C9: the response text of a successful chat reply has at most max_tokens
\* tokens, and as many as tokens_used says.
C9_ResponseWithinBudget ==
  \A r \in Reqs :
    ChatOk(r) =>
      /\ TokenLen(h[r].http.response) <= h[r].http.max_tokens
      /\ TokenLen(h[r].http.response) = h[r].http.tokens_used

\* the answer a request's own endpoint and provider result determine
Outcome(rec) ==
  IF rec.response.tag = "raise"
  THEN [status |-> 500, detail |-> rec.response.err]
  ELSE IF rec.endpoint = "tts"
  THEN [status |-> 200, media_type |-> "audio/mpeg", body |-> rec.response.text]
  ELSE IF rec.response.tag = "none"
  THEN [status |-> 500, detail |-> "expected string or buffer"]
  ELSE IF EncodeRaises(rec.response.text)
  THEN [status |-> 500, detail |-> "disallowed special token"]
  ELSE LET res == truncate_to_max_tokens(rec.response.text, MAX_OUTPUT_TOKENS)
       IN  [status |-> 200, response |-> res[1], tokens_used |-> res[2],
            max_tokens |-> MAX_OUTPUT_TOKENS,
            truncated |-> was_truncated(rec.response.text, res[1])]

\* C10: under any interleaving, a step changes the state of one request only
\* and leaves the key, the tokenizer and MAX_OUTPUT_TOKENS alone; every request
\* makes one provider call, and the step that finishes it leaves it with the
\* answer its own provider result determines (which no later step changes).
C10_Isolation ==
  [][/\ config' = config
     /\ \A r, q \in Reqs : (r # q /\ h'[r] # h[r]) => h'[q] = h[q]
     /\ \A r \in Reqs :
          /\ h'[r].calls <= 1
          /\ (h'[r] # h[r] /\ h'[r].pc = "done") =>
               (h'[r].calls = 1 /\ h'[r].http = Outcome(h'[r]))]_vars

\* C10 witness: two requests in flight at once, a chat request whose reply was
\* cut and a speech request whose audio is buffered
C10_Witness ==
  /\ h[1].pc = "chat_return" /\ h[1].was_truncated
  /\ h[2].pc = "tts_return" /\ h[2].audio_buffer.data = <<255>>
  /\ h[1].message = h[2].message

====
